---- MODULE Spec2Model ----
(***************************************************************************)
(* BankGPT loan-origination assistant.                                     *)
(*                                                                         *)
(* Part I  - the chat session: app.py's chat turn (add_message,            *)
(*           run_unified_agent, state merge), the document upload and the  *)
(*           "Start New Application" button, over session_manager's state. *)
(* Part II - the FastAPI conversation endpoint (main.py) over              *)
(*           ContextManager and FallbackHandler.                           *)
(* Part III - the EMI calculators: utils.compute_emi,                      *)
(*           master_agent.calculate_emi and xai_helper's year-wise         *)
(*           breakdown.                                                    *)
(*                                                                         *)
(* Python values: None and a missing dict key are both written None (for   *)
(* strings) or 0 (for numbers); every use in the code is a truthiness test *)
(* or a .get() with a falsy default, which cannot tell them apart.         *)
(***************************************************************************)
EXTENDS Integers, Sequences, FiniteSets, TLC

VARIABLES
    state,        \* st.session_state['conversation_state']
    history_empty,\* whether the conversation history handed to the next turn is empty
    result,       \* the dict the latest run_unified_agent call returned, with its trace
    user_input,   \* the latest user message (its extractable tokens)
    finalized     \* history: <<selected_tenure, final_emi>> of the first finalization

chatVars == <<state, history_empty, result, user_input, finalized>>

VARIABLES
    histories,    \* ContextManager.histories: session_id -> sequence of <<role, request>>
    sessions,     \* ContextManager.sessions: the initialized session ids
    requests,     \* per request of the conversation endpoint: its position and session
    error_counts, \* FallbackHandler.error_counts
    circuits_open,\* FallbackHandler.circuits_open
    rate_limited, \* FallbackHandler._is_rate_limited(api), cooldown not yet elapsed
    last_api_used,\* FallbackHandler.last_api_used
    contexts,     \* ContextManager.sessions: session_id -> the context dict
    metadata,     \* ContextManager.metadata: session_id -> message_count
    last_session  \* the session id the latest ContextManager or endpoint call was for

apiVars == <<histories, sessions, requests, error_counts, circuits_open, rate_limited,
             last_api_used, contexts, metadata, last_session>>

VARIABLES
    calc          \* the latest call of an EMI calculator: its arguments and what it gave

calcVars == <<calc>>

vars == <<chatVars, apiVars, calcVars>>

-----------------------------------------------------------------------------
(* Bounds of the model *)

MaxRequests == 4
MaxInFlight == 2
MaxContextRequests == 2
MaxFallbackRequests == 6
MaxArrivals == 103

-----------------------------------------------------------------------------
(* Values *)

None == "None"

NoRecord == [name |-> None, credit_score |-> 0, approved_amount |-> 0,
             income |-> 0, blacklisted |-> FALSE, fraud |-> "Clear", present |-> FALSE]

\* data/mock_db.json: the customers of the specification's scenarios A, B, C, E,
\* customer F whom only the fraud screen flags, and the zero-limit customers
\* Z (strong score, blacklisted) and Y (weak score), and customer M whose record
\* holds neither approved_amount nor credit_score: the record.get defaults of
\* lines 612-614 are for such a record, while the CustomerRecord of the design
\* holds both, so M's phone is named only in the turns of SpecPartialRecord.
\* fraud is what the fraud
\* screen answers for the record; it is a collaborator of its own, so its answer
\* need not agree with the record's blacklisted flag.
\* a key the record does not hold
NoField == -1

Customer(name, credit_score, approved_amount, income, blacklisted, fraud) ==
    [name |-> name, credit_score |-> credit_score, approved_amount |-> approved_amount,
     income |-> income, blacklisted |-> blacklisted, fraud |-> fraud, present |-> TRUE]

Registry ==
    [p \in {"9876543210", "9998887776", "8887776665", "7776665554", "6665554443",
            "5554443332", "4443332221", "3332221110"} |->
        CASE p = "9876543210" -> Customer("A", 750, 600000, 80000, FALSE, "Clear")
          [] p = "9998887776" -> Customer("B", 720, 300000, 60000, FALSE, "Unknown")
          [] p = "8887776665" -> Customer("C", 710, 400000, 70000, TRUE, "Clear")
          [] p = "7776665554" -> Customer("E", 650, 200000, 40000, FALSE, "Clear")
          [] p = "6665554443" -> Customer("Z", 700, 0, 30000, TRUE, "Clear")
          [] p = "5554443332" -> Customer("F", 710, 400000, 70000, FALSE, "Blacklisted")
          [] p = "4443332221" -> Customer("Y", 650, 0, 30000, FALSE, "Clear")
          [] p = "3332221110" -> Customer("M", NoField, NoField, 30000, FALSE, "Clear")]

UnregisteredPhone == "9123456789"

PartialRecordPhone == "3332221110"

Phones == (DOMAIN Registry \ {PartialRecordPhone}) \cup {UnregisteredPhone}

\* registry lookup: load_db().get(phone) / verification_agent(phone, db)
Lookup(phone) == IF phone \in DOMAIN Registry THEN Registry[phone] ELSE NoRecord

\* fraud_agent(record): "Clear" | "Blacklisted" | "Unknown"
fraud_agent(record) == record.fraud

Paths == {"REGISTER", "FAST_TRACK", "CONDITIONAL", "MANUAL_REVIEW", "HARD_REJECT"}
DecisionStages == {"approved", "document_needed", "completed"}
Tenures == {24, 36, 48, 60, 72}

-----------------------------------------------------------------------------
(* User messages, by the tokens the extractor's patterns look for.         *)
(*   phone   first standalone 10-digit token, or None                      *)
(*   lakh    N of the first "N lakh|lac", or -1                            *)
(*   crore   N of the first "N crore", or -1                               *)
(*   rupees  the number after the first "rupees|rs", or -1                 *)
(*   large   the standalone 6-7 digit numbers, in order                    *)
(*   income  the number of the first income phrase, or -1                  *)
(*   tenure  the months of the first tenure pattern that matches, or 0     *)

NoNum == -1

AmountTokens ==
    { [lakh |-> NoNum, crore |-> NoNum, rupees |-> NoNum, large |-> <<>>],
      [lakh |-> 2,     crore |-> NoNum, rupees |-> NoNum, large |-> <<>>],
      [lakh |-> 0,     crore |-> NoNum, rupees |-> NoNum, large |-> <<>>],
      [lakh |-> 5,     crore |-> 1,     rupees |-> NoNum, large |-> <<1000000>>],
      [lakh |-> NoNum, crore |-> NoNum, rupees |-> 300000, large |-> <<>>],
      [lakh |-> NoNum, crore |-> NoNum, rupees |-> 50000, large |-> <<500000>>],
      [lakh |-> NoNum, crore |-> NoNum, rupees |-> NoNum, large |-> <<1000000, 500000>>] }

NoMessage == [phone |-> None, lakh |-> NoNum, crore |-> NoNum, rupees |-> NoNum,
              large |-> <<>>, income |-> NoNum, tenure |-> 0]

\* the phones that messages combine with an amount phrase; the other phones
\* come in a message of their own
PhonesWithAmount == {None, "9876543210", UnregisteredPhone}

\* messages with a phone and an amount phrase (either may be missing), messages
\* naming a tenure, "2 lakh for 36 months" with or without a phone,
\* "I need 240000" (whose number begins like the 24-month pattern) and
\* "I earn rs 45000"
Messages ==
    { [NoMessage EXCEPT !.phone = p, !.lakh = a.lakh, !.crore = a.crore,
                        !.rupees = a.rupees, !.large = a.large] :
        p \in PhonesWithAmount, a \in AmountTokens }
    \cup { [NoMessage EXCEPT !.phone = p] : p \in Phones }
    \cup { [NoMessage EXCEPT !.tenure = 36] }
    \cup { [NoMessage EXCEPT !.phone = p, !.lakh = 2, !.tenure = 36] :
                p \in {None, "9876543210"} }
    \cup { [NoMessage EXCEPT !.large = <<240000>>, !.tenure = 24] }
    \cup { [NoMessage EXCEPT !.income = 45000, !.rupees = 45000] }

Languages == {"english", "hindi"}

\* what _generate_llm_response returns: a text of at least 5 characters, or ""
LlmResponses == {"LLM_TEXT", ""}

-----------------------------------------------------------------------------
(* session_manager.init_session *)

\* state['approval_context'] before any approval
NoApprovalContext ==
    [present |-> FALSE, customer_name |-> None, phone |-> None, requested_amount |-> 0,
     pre_approved_limit |-> 0, income |-> 0, credit_score |-> 0, emi |-> 0, tenure |-> 0]

InitState ==
    [phone |-> None, verified |-> FALSE, customer_name |-> None, credit_score |-> 0,
     pre_approved_limit |-> 0, income |-> 0, requested_amount |-> 0,
     eligibility_path |-> None, conversation_stage |-> None,
     document_uploaded |-> FALSE, not_in_crm |-> FALSE, selected_tenure |-> 0,
     approval_context |-> NoApprovalContext]

\* The returned dict, and three fields that trace the call: branch (the arm of
\* run_unified_agent that produced it), missing_info (the WHAT WE STILL NEED
\* lines of the prompt), llm_called, doc_uploaded (the flag the rules read).
NoResult ==
    [branch |-> "none", message |-> None, conversation_stage |-> None,
     eligibility_path |-> None, phone |-> None, customer_name |-> None,
     credit_score |-> 0, pre_approved_limit |-> 0, income |-> 0, verified |-> FALSE,
     not_in_crm |-> FALSE, requested_amount |-> 0, selected_tenure |-> 0,
     final_emi |-> 0, missing_info |-> <<>>, llm_called |-> FALSE,
     doc_uploaded |-> FALSE]

-----------------------------------------------------------------------------
(* master_agent._extract_all_information *)

\* record.get(key, default)
GetOr(field, default) == IF field = NoField THEN default ELSE field

\* the registry's answer as the candidate fields of lines 609-621
PhoneFields(phone) ==
    LET record == Lookup(phone) IN
    IF record.present
    THEN [phone |-> phone, customer_name |-> record.name,
          credit_score |-> GetOr(record.credit_score, 700),
          pre_approved_limit |-> GetOr(record.approved_amount, 500000),
          income |-> GetOr(record.income, 50000),
          verified |-> TRUE, not_in_crm |-> FALSE]
    ELSE [phone |-> phone, customer_name |-> None, credit_score |-> 0,
          pre_approved_limit |-> 0, income |-> 0, verified |-> FALSE, not_in_crm |-> TRUE]

NoPhoneFields ==
    [phone |-> None, customer_name |-> None, credit_score |-> 0,
     pre_approved_limit |-> 0, income |-> 0, verified |-> FALSE, not_in_crm |-> FALSE]

\* lines 601-623: the phone is looked for only while the state holds none
ExtractPhoneUnguarded(st, msg) ==
    IF msg.phone # None THEN PhoneFields(msg.phone) ELSE NoPhoneFields

ExtractPhone(st, msg) ==
    IF st.phone = None /\ msg.phone # None THEN PhoneFields(msg.phone) ELSE NoPhoneFields

InLoanRange(n) == 100000 <= n /\ n <= 100000000

RECURSIVE FirstLarge(_)
\* lines 649-654: the first 6-7 digit number within the range
FirstLarge(nums) ==
    IF nums = <<>> THEN 0
    ELSE IF InLoanRange(Head(nums)) THEN Head(nums)
    ELSE FirstLarge(Tail(nums))

\* lines 627-654: the if/elif chain of the four amount patterns; 0 when no
\* requested_amount key is set (or it is set to 0, which every reader treats alike)
AmountOf(msg) ==
    IF msg.lakh # NoNum THEN msg.lakh * 100000
    ELSE IF msg.crore # NoNum THEN msg.crore * 10000000
    ELSE IF msg.rupees # NoNum THEN (IF InLoanRange(msg.rupees) THEN msg.rupees ELSE 0)
    ELSE FirstLarge(msg.large)

\* lines 625-626: the amount is looked for only while the state holds none
ExtractAmount(st, msg) ==
    IF st.requested_amount = 0 THEN AmountOf(msg) ELSE 0

\* lines 656-667: an income phrase overrides the income taken from the registry
ExtractIncome(st, msg, fromPhone) ==
    IF st.income = 0 /\ msg.income # NoNum THEN msg.income ELSE fromPhone

\* lines 669-687: tenure is looked for while the state holds no selected_tenure
ExtractTenure(st, msg) ==
    IF st.selected_tenure = 0 THEN msg.tenure ELSE 0

_extract_all_information(msg, st) ==
    LET ph == ExtractPhone(st, msg) IN
    [phone |-> ph.phone, customer_name |-> ph.customer_name,
     credit_score |-> ph.credit_score, pre_approved_limit |-> ph.pre_approved_limit,
     income |-> ExtractIncome(st, msg, ph.income),
     verified |-> ph.verified, not_in_crm |-> ph.not_in_crm,
     requested_amount |-> ExtractAmount(st, msg),
     selected_tenure |-> ExtractTenure(st, msg)]

-----------------------------------------------------------------------------
(* master_agent: the views of state plus candidates *)

\* Python's `a or b` on strings
OrStr(a, b) == IF a # None THEN a ELSE b
\* Python's `a or b` on numbers
OrNum(a, b) == IF a # 0 THEN a ELSE b

\* {**state, **extracted_info}: a key of extracted_info wins. The phone keys are
\* present in extracted_info only when a phone was extracted this turn.
Combined(st, ex) ==
    [phone |-> IF ex.phone # None THEN ex.phone ELSE st.phone,
     requested_amount |-> IF st.requested_amount = 0 THEN ex.requested_amount
                          ELSE st.requested_amount,
     pre_approved_limit |-> IF ex.verified THEN ex.pre_approved_limit
                            ELSE st.pre_approved_limit]

\* _determine_missing_info: the lines of the returned text, as descriptors
_determine_missing_info(st, ex) ==
    LET c == Combined(st, ex)
        phone == c.phone
        amount == c.requested_amount
        limit == c.pre_approved_limit
        m1 == IF phone = None THEN <<"phone">> ELSE <<>>
        m2 == IF amount = 0 THEN <<"amount">> ELSE <<>>
        m3 == IF amount # 0 /\ limit # 0 /\ amount > limit THEN <<"salary_slip">> ELSE <<>>
        missing == m1 \o m2 \o m3
    IN  IF phone # None /\ amount # 0 /\ limit # 0 /\ amount <= limit
        THEN <<"PRE_APPROVED">>
        ELSE IF missing # <<>> THEN missing ELSE <<"ALL_COLLECTED">>

_determine_adaptive_stage(st, ex) ==
    LET has_phone == OrStr(st.phone, ex.phone) # None
        has_amount == OrNum(st.requested_amount, ex.requested_amount) # 0
        has_name == OrStr(st.customer_name, ex.customer_name) # None
    IN  IF has_amount /\ has_phone THEN "eligibility_check"
        ELSE IF has_phone /\ ~has_amount THEN "amount_gathering"
        ELSE IF has_name /\ ~has_phone THEN "phone_gathering"
        ELSE "loan_understanding"

_get_adaptive_greeting(language) ==
    IF language = "hindi" THEN "GREETING_HI" ELSE "GREETING_EN"

_get_fallback_response(missing_info, language) ==
    IF language = "hindi" THEN "FALLBACK_HI" ELSE "FALLBACK_EN"

\* The texts that ask "how much loan": both greetings (lines 751-752) and both
\* static fallback prompts (lines 824, 826).
AsksAmount(message) == message \in {"GREETING_HI", "GREETING_EN", "FALLBACK_HI", "FALLBACK_EN"}

-----------------------------------------------------------------------------
(* EMI: P * r * (1+r)^n / ((1+r)^n - 1) with r = 8.5 / 100 / 12 = 17/2400,  *)
(* in fixed point (the code computes in floating point).                   *)

PowScale == 100000

RECURSIVE PowFixed(_)
\* (1 + r)^n * PowScale
PowFixed(n) == IF n = 0 THEN PowScale ELSE (PowFixed(n - 1) * 2417) \div 2400

\* the EMI always taken over five years
EMIFiveYears(loan_amount, num_months) ==
    LET pw == PowFixed(60)
        ratio == (pw * 1000) \div (pw - PowScale)
    IN  (((loan_amount * 17) \div 2400) * ratio) \div 1000

EMI(loan_amount, num_months) ==
    LET pw == PowFixed(num_months)
        ratio == (pw * 1000) \div (pw - PowScale)
    IN  (((loan_amount * 17) \div 2400) * ratio) \div 1000

-----------------------------------------------------------------------------
(* master_agent.run_unified_agent *)

\* the fraud test that looks at the screen's answer alone
FlaggedByScreenOnly(record) == fraud_agent(record) = "Blacklisted"

\* the fraud test that looks at the record's flag alone
FlaggedByRegistryOnly(record) == record.blacklisted

\* the fraud test that trusts a "Clear" answer of the screen
FlaggedWhenNotClear(record) == fraud_agent(record) # "Clear"

\* the fraud test that lets only a "Clear" answer pass
FlaggedUnlessClear(record) == fraud_agent(record) # "Clear" \/ record.blacklisted

\* lines 220-221 and 254-255: fraud_status == "Blacklisted" or blacklisted
IsFlagged(record) == fraud_agent(record) = "Blacklisted" \/ record.blacklisted

\* the secondary test without the factor 2
Within1x(limit, amount) == limit > 0 /\ amount <= limit

\* line 241: within_2x
Within2x(limit, amount) == limit > 0 /\ amount <= 2 * limit

\* the score test with a strict comparison
StrongScoreAbove(credit_score) == credit_score > 700

\* the score test with the threshold at 650
StrongScoreFrom650(credit_score) == credit_score >= 650

\* line 242: strong_score
StrongScore(credit_score) == credit_score >= 700

\* the document flag never read as set
DocNeverUploaded(st) == FALSE

\* line 216: doc_uploaded
DocUploaded(st) == st.document_uploaded

\* lines 210-275: the eligibility rules on the registry record of the phone
EligibilityRules(phone, amount, st) ==
    LET record == Lookup(phone)
        limit == IF record.present THEN GetOr(record.approved_amount, st.pre_approved_limit)
                 ELSE st.pre_approved_limit
        credit_score == IF record.present THEN GetOr(record.credit_score, st.credit_score)
                        ELSE st.credit_score
    IN  IF amount <= limit
        THEN IF IsFlagged(record)
             THEN [eligibility_path |-> "MANUAL_REVIEW", conversation_stage |-> "completed",
                   message |-> "MANUAL_REVIEW_MSG"]
             ELSE [eligibility_path |-> "FAST_TRACK", conversation_stage |-> "approved",
                   message |-> "FAST_TRACK_MSG"]
        ELSE IF Within2x(limit, amount) \/ StrongScore(credit_score)
             THEN IF ~DocUploaded(st)
                  THEN [eligibility_path |-> "CONDITIONAL", conversation_stage |-> "document_needed",
                        message |-> "DOCUMENT_NEEDED_MSG"]
                  ELSE IF IsFlagged(record)
                       THEN [eligibility_path |-> "MANUAL_REVIEW", conversation_stage |-> "completed",
                             message |-> "DOCUMENT_MANUAL_REVIEW_MSG"]
                       ELSE [eligibility_path |-> "CONDITIONAL", conversation_stage |-> "completed",
                             message |-> "CONDITIONAL_APPROVAL_MSG"]
             ELSE [eligibility_path |-> "HARD_REJECT", conversation_stage |-> "completed",
                   message |-> "HARD_REJECT_MSG"]

\* lines 188-194 without the static fallback of lines 193-194
GatherResponseNoFallback(phone, amount, missing_info, language, llm) ==
    IF phone # None /\ amount # 0 THEN None ELSE llm

\* lines 188-194: the text shown while gathering, None (not yet set) otherwise
GatherResponse(phone, amount, missing_info, language, llm) ==
    IF phone # None /\ amount # 0 THEN None
    ELSE IF llm # "" THEN llm
    ELSE _get_fallback_response(missing_info, language)

\* lines 196-275 with the rules tried before the not-in-CRM test
DecideRulesFirst(st, ex, response) ==
    LET phone == OrStr(st.phone, ex.phone)
        amount == OrNum(st.requested_amount, ex.requested_amount)
    IN  IF phone # None /\ amount # 0
        THEN [branch |-> "rules"] @@ EligibilityRules(phone, amount, st)
        ELSE IF phone # None /\ (st.not_in_crm \/ ex.not_in_crm)
        THEN [branch |-> "register", eligibility_path |-> "REGISTER",
              conversation_stage |-> "completed", message |-> "REGISTER_MSG"]
        ELSE [branch |-> "gather", eligibility_path |-> st.eligibility_path,
              conversation_stage |-> _determine_adaptive_stage(st, ex), message |-> response]

\* lines 196-275 with the rules run as soon as a phone is known
DecideOnPhone(st, ex, response) ==
    LET phone == OrStr(st.phone, ex.phone)
        amount == OrNum(st.requested_amount, ex.requested_amount)
    IN  IF phone # None /\ (st.not_in_crm \/ ex.not_in_crm)
        THEN [branch |-> "register", eligibility_path |-> "REGISTER",
              conversation_stage |-> "completed", message |-> "REGISTER_MSG"]
        ELSE IF phone # None
        THEN [branch |-> "rules"] @@ EligibilityRules(phone, amount, st)
        ELSE [branch |-> "gather", eligibility_path |-> st.eligibility_path,
              conversation_stage |-> _determine_adaptive_stage(st, ex), message |-> response]

\* lines 196-275 reading phone and amount from the state alone
DecideStateOnly(st, ex, response) ==
    IF st.phone # None /\ (st.not_in_crm \/ ex.not_in_crm)
    THEN [branch |-> "register", eligibility_path |-> "REGISTER",
          conversation_stage |-> "completed", message |-> "REGISTER_MSG"]
    ELSE IF st.phone # None /\ st.requested_amount # 0
    THEN [branch |-> "rules"] @@ EligibilityRules(st.phone, st.requested_amount, st)
    ELSE [branch |-> "gather", eligibility_path |-> st.eligibility_path,
          conversation_stage |-> _determine_adaptive_stage(st, ex), message |-> response]

\* lines 196-275 with the REGISTER arm keeping the text generated at line 190
DecideKeepLlmReply(st, ex, response) ==
    LET phone == OrStr(st.phone, ex.phone)
        amount == OrNum(st.requested_amount, ex.requested_amount)
    IN  IF phone # None /\ (st.not_in_crm \/ ex.not_in_crm)
        THEN [branch |-> "register", eligibility_path |-> "REGISTER",
              conversation_stage |-> "completed",
              message |-> IF response = None THEN "REGISTER_MSG" ELSE response]
        ELSE IF phone # None /\ amount # 0
        THEN [branch |-> "rules"] @@ EligibilityRules(phone, amount, st)
        ELSE [branch |-> "gather", eligibility_path |-> st.eligibility_path,
              conversation_stage |-> _determine_adaptive_stage(st, ex), message |-> response]

\* lines 196-275: next_stage, eligibility_path and response of a turn that is
\* not a tenure finalization; branch names the arm of the if/elif that ran
Decide(st, ex, response) ==
    LET phone == OrStr(st.phone, ex.phone)
        amount == OrNum(st.requested_amount, ex.requested_amount)
    IN  IF phone # None /\ (st.not_in_crm \/ ex.not_in_crm)
        THEN [branch |-> "register", eligibility_path |-> "REGISTER",
              conversation_stage |-> "completed", message |-> "REGISTER_MSG"]
        ELSE IF phone # None /\ amount # 0
        THEN [branch |-> "rules"] @@ EligibilityRules(phone, amount, st)
        ELSE [branch |-> "gather", eligibility_path |-> st.eligibility_path,
              conversation_stage |-> _determine_adaptive_stage(st, ex), message |-> response]

\* lines 149-151: the turn is a tenure finalization
IsTenureTurn(st, ex) ==
    st.conversation_stage = "approved" /\ ex.selected_tenure # 0 /\ st.requested_amount > 0

\* a greeting that carries what the extractor found in the message
GreetingWithExtraction(ex, language) ==
    [ex @@ NoResult EXCEPT !.branch = "greeting",
                          !.message = _get_adaptive_greeting(language),
                          !.conversation_stage = "loan_understanding"]

\* lines 89-95: the greeting is returned before the extractor runs and carries
\* none of what the extractor would find
Greeting(ex, language) ==
    [NoResult EXCEPT !.branch = "greeting",
                     !.message = _get_adaptive_greeting(language),
                     !.conversation_stage = "loan_understanding"]

\* the returned dict; the greeting (lines 89-95) carries no extracted field
run_unified_agent(msg, st, no_history, language, llm) ==
    LET ex == _extract_all_information(msg, st)
        missing_info == _determine_missing_info(st, ex)
        phone == OrStr(st.phone, ex.phone)
        amount == OrNum(st.requested_amount, ex.requested_amount)
        response == GatherResponse(phone, amount, missing_info, language, llm)
        d == Decide(st, ex, response)
    IN  IF no_history
        THEN Greeting(ex, language)
        ELSE IF IsTenureTurn(st, ex)
        THEN [ex @@ NoResult EXCEPT !.branch = "tenure",
                              !.message = "FINALIZED_MSG",
                              !.conversation_stage = "completed",
                              !.eligibility_path = IF st.eligibility_path = None THEN "FAST_TRACK"
                                                   ELSE st.eligibility_path,
                              !.final_emi = EMI(st.requested_amount, ex.selected_tenure),
                              !.missing_info = missing_info]
        ELSE [ex @@ NoResult EXCEPT !.branch = d.branch,
                              !.message = d.message,
                              !.conversation_stage = d.conversation_stage,
                              !.eligibility_path = d.eligibility_path,
                              !.missing_info = missing_info,
                              !.llm_called = ~(phone # None /\ amount # 0),
                              !.doc_uploaded = d.branch = "rules" /\ DocUploaded(st)]

\* lines 313-322 with the stage set back to the one after the greeting
FaultResultFirstStage(st) ==
    [NoResult EXCEPT !.branch = "fault", !.message = "TRY_AGAIN_MSG",
                     !.conversation_stage = "loan_understanding"]

\* lines 313-322: the dict returned when a step inside the try (from line 98
\* on) raised; state.get('conversation_stage', 'loan_understanding')
FaultResult(st) ==
    [NoResult EXCEPT !.branch = "fault", !.message = "TRY_AGAIN_MSG",
                     !.conversation_stage = IF st.conversation_stage = None
                                            THEN "loan_understanding"
                                            ELSE st.conversation_stage]

\* lines 277-302: state['approval_context'], written from the state as it was
\* before this turn's candidates are merged
ApprovalContext(st, r) ==
    LET loan_amount == OrNum(st.requested_amount, r.requested_amount) IN
    IF r.branch \in {"register", "rules", "gather"} /\ r.conversation_stage = "approved"
       /\ loan_amount > 0
    THEN [present |-> TRUE, customer_name |-> st.customer_name, phone |-> st.phone,
          requested_amount |-> loan_amount, pre_approved_limit |-> st.pre_approved_limit,
          income |-> st.income, credit_score |-> st.credit_score,
          emi |-> EMI(loan_amount, 60), tenure |-> 60]
    ELSE st.approval_context

-----------------------------------------------------------------------------
(* app.py: the chat turn's state merge, lines 470-494 *)

\* conversation_stage is always copied, the other keys only when truthy
Merge(st, r) ==
    [st EXCEPT !.conversation_stage = r.conversation_stage,
               !.phone = OrStr(r.phone, @),
               !.customer_name = OrStr(r.customer_name, @),
               !.credit_score = OrNum(r.credit_score, @),
               !.pre_approved_limit = OrNum(r.pre_approved_limit, @),
               !.income = OrNum(r.income, @),
               !.requested_amount = OrNum(r.requested_amount, @),
               !.eligibility_path = OrStr(r.eligibility_path, @),
               !.verified = r.verified \/ @]

NotFinalized == [present |-> FALSE, selected_tenure |-> 0, final_emi |-> 0]

-----------------------------------------------------------------------------
(* Part I: the chat session *)

ChatInit ==
    /\ state = InitState
    /\ history_empty \in BOOLEAN
    /\ result = NoResult
    /\ user_input = NoMessage
    /\ finalized = NotFinalized

\* app.py lines 453-496: one chat turn, to completion
TurnOn(msg) ==
    \E language \in Languages, llm \in LlmResponses :
        \E r \in {run_unified_agent(msg, state, history_empty, language, llm)} :
            /\ state' = Merge([state EXCEPT !.approval_context = ApprovalContext(state, r)], r)
            /\ result' = r
            /\ user_input' = msg
            /\ history_empty' = FALSE
            /\ finalized' = IF r.branch = "tenure" /\ ~finalized.present
                            THEN [present |-> TRUE, selected_tenure |-> r.selected_tenure,
                                  final_emi |-> r.final_emi]
                            ELSE finalized

Turn ==
    /\ \E msg \in Messages : TurnOn(msg)
    /\ UNCHANGED <<apiVars, calcVars>>

\* a turn whose message names the phone of customer M
TurnPartialRecord ==
    /\ TurnOn([NoMessage EXCEPT !.phone = PartialRecordPhone])
    /\ UNCHANGED <<apiVars, calcVars>>

\* app.py lines 453-496 when a step of run_unified_agent raises past the
\* greeting: the except of lines 313-322 returns, and the app merges
TurnFault ==
    /\ ~history_empty
    /\ \E msg \in Messages :
        \E r \in {FaultResult(state)} :
            /\ state' = Merge(state, r)
            /\ result' = r
            /\ user_input' = msg
    /\ UNCHANGED <<history_empty, finalized>>
    /\ UNCHANGED <<apiVars, calcVars>>

\* app.py lines 197-207: the sidebar's document upload
UploadDocument ==
    /\ ~state.document_uploaded
    /\ state' = [state EXCEPT !.document_uploaded = TRUE]
    /\ UNCHANGED <<history_empty, result, user_input, finalized>>
    /\ UNCHANGED <<apiVars, calcVars>>

\* a reset that clears everything but the phone
ResetKeepingPhone ==
    /\ state' = [InitState EXCEPT !.phone = state.phone]
    /\ history_empty' = FALSE
    /\ result' = [NoResult EXCEPT !.branch = "reset"]
    /\ user_input' = NoMessage
    /\ finalized' = NotFinalized
    /\ UNCHANGED <<apiVars, calcVars>>

\* app.py lines 234-238: "Start New Application", then init_session
StartNewApplication ==
    /\ state' = InitState
    /\ history_empty' = FALSE
    /\ result' = [NoResult EXCEPT !.branch = "reset"]
    /\ user_input' = NoMessage
    /\ finalized' = NotFinalized
    /\ UNCHANGED <<apiVars, calcVars>>

-----------------------------------------------------------------------------
(* Part II: the conversation endpoint, main.py over ContextManager and     *)
(* FallbackHandler. A request runs without interruption from one await to  *)
(* the next; the only await that suspends is the Gemini call               *)
(* (asyncio.to_thread in _call_gemini). GroqClient has no get_response, so *)
(* _call_groq raises before it suspends.                                   *)

SessionIds == {"s1", "s2"}
Apis == {"gemini", "groq"}
RequestIds == 1..MaxRequests

\* the requests made while the ContextManager is also called directly
ContextRequestIds == 1..MaxContextRequests

\* the requests of one session made to the FallbackHandler until its circuits open
FallbackRequestIds == 1..MaxFallbackRequests

\* ContextManager.__init__: max_messages_per_session
max_messages == 100

\* FallbackHandler.__init__: circuit_breaker_threshold
circuit_breaker_threshold == 5

\* what gemini.get_response does: returns a text, raises, or raises with a
\* message holding "429" or "rate"
GeminiOutcomes == {"ok", "error", "rate"}

RECURSIVE LastN(_, _)
\* seq[-n:]
LastN(seq, n) == IF Len(seq) <= n THEN seq ELSE LastN(Tail(seq), n)

\* a session id without an entry in ContextManager.sessions / .metadata
NoContext == [present |-> FALSE, stage |-> None, phone |-> None]
NoMetadata == [present |-> FALSE, message_count |-> 0]

\* initialize_session lines 22-38: the context and the metadata of a new session
NewContext == [present |-> TRUE, stage |-> "greeting", phone |-> None]
NewMetadata == [present |-> TRUE, message_count |-> 0]

\* the updates a caller passes to update_context
Updates == {[phone |-> "9876543210"]}

\* initialize_session line 33: a session id not in sessions gets an empty history
initialize_history(hist, session_id) ==
    IF session_id \in sessions THEN hist ELSE [hist EXCEPT ![session_id] = <<>>]

\* initialize_session lines 21-32 (and nothing for a session id already known)
initialize_context(ctx, session_id) ==
    IF session_id \in sessions THEN ctx ELSE [ctx EXCEPT ![session_id] = NewContext]

\* initialize_session lines 34-38
initialize_metadata(meta, session_id) ==
    IF session_id \in sessions THEN meta ELSE [meta EXCEPT ![session_id] = NewMetadata]

\* add_message appending to the history of every session
add_message_all(hist, session_id, role, content) ==
    [s \in DOMAIN hist |-> LastN(Append(hist[s], <<role, content>>), max_messages)]

\* add_message without the trim
add_message_untrimmed(hist, session_id, role, content) ==
    [hist EXCEPT ![session_id] = Append(@, <<role, content>>)]

\* ContextManager.add_message lines 60-68
add_message(hist, session_id, role, content) ==
    [hist EXCEPT ![session_id] = LastN(Append(@, <<role, content>>), max_messages)]

\* ContextManager.add_message line 70, for a session that has metadata: the
\* message_count is the length of the history after the append
count_message(meta, hist, session_id) ==
    [meta EXCEPT ![session_id].message_count = Len(hist[session_id])]

\* get_response skipping every API
Unavailable(api) == FALSE

\* FallbackHandler.get_response lines 40 and 61: the API may be tried
Available(api) == ~circuits_open[api] /\ ~rate_limited[api]

\* the Groq attempt opening the circuit at the first error
GroqAttemptOpening(counts, circuits) ==
    IF ~circuits["groq"] /\ ~rate_limited["groq"]
    THEN [counts |-> [counts EXCEPT !["groq"] = @ + 1],
          circuits |-> [circuits EXCEPT !["groq"] = TRUE],
          called |-> {"groq"}]
    ELSE [counts |-> counts, circuits |-> circuits, called |-> {}]

\* get_response lines 60-81 once Gemini was skipped or has raised: the Groq call
\* raises AttributeError, the error is counted, and get_response raises
GroqAttempt(counts, circuits) ==
    IF ~circuits["groq"] /\ ~rate_limited["groq"]
    THEN [counts |-> [counts EXCEPT !["groq"] = @ + 1],
          circuits |-> [circuits EXCEPT !["groq"] =
                           @ \/ counts["groq"] + 1 >= circuit_breaker_threshold],
          called |-> {"groq"}]
    ELSE [counts |-> counts, circuits |-> circuits, called |-> {}]

InFlight == {k \in DOMAIN requests : requests[k].pc = "gemini"}

ApiInit ==
    /\ histories = [s \in SessionIds |-> <<>>]
    /\ sessions = {}
    /\ requests = [k \in RequestIds \cup FallbackRequestIds |->
                       [session |-> None, pc |-> "new", called |-> {}]]
    /\ error_counts = [a \in Apis |-> 0]
    /\ circuits_open = [a \in Apis |-> FALSE]
    /\ rate_limited = [a \in Apis |-> FALSE]
    /\ last_api_used = None
    /\ contexts = [s \in SessionIds |-> NoContext]
    /\ metadata = [s \in SessionIds |-> NoMetadata]
    /\ last_session = None

\* conversation lines 123-136 and get_response lines 36-42: request k arrives
\* for session sid and runs up to the Gemini call
ConversationStart(k, sid) ==
    /\ requests[k].pc = "new"
    /\ \A j \in DOMAIN requests : j < k => requests[j].pc # "new"
    /\ Cardinality(InFlight) < MaxInFlight
    /\ sessions' = sessions \cup {sid}
    /\ contexts' = initialize_context(contexts, sid)
    /\ histories' = add_message(initialize_history(histories, sid), sid, "user", k)
    /\ metadata' = count_message(initialize_metadata(metadata, sid), histories', sid)
    /\ last_session' = sid
    /\ IF Available("gemini")
       THEN /\ requests' = [requests EXCEPT ![k] =
                                [session |-> sid, pc |-> "gemini", called |-> {"gemini"}]]
            /\ UNCHANGED <<error_counts, circuits_open>>
       ELSE LET g == GroqAttempt(error_counts, circuits_open) IN
            /\ requests' = [requests EXCEPT ![k] =
                                [session |-> sid, pc |-> "failed", called |-> g.called]]
            /\ error_counts' = g.counts
            /\ circuits_open' = g.circuits
    /\ UNCHANGED <<rate_limited, last_api_used>>
    /\ UNCHANGED <<chatVars, calcVars>>

\* get_response lines 43-46 and conversation lines 141-174: Gemini answers,
\* the reply is recorded and the request completes
GeminiSucceeds(k) ==
    /\ requests[k].pc = "gemini"
    /\ last_api_used' = "gemini"
    /\ error_counts' = [error_counts EXCEPT !["gemini"] = 0]
    /\ histories' = add_message(histories, requests[k].session, "bot", k)
    /\ IF metadata[requests[k].session].present
       THEN /\ metadata' = count_message(metadata, histories', requests[k].session)
            /\ requests' = [requests EXCEPT ![k].pc = "done"]
       ELSE \* line 70 raises KeyError: the request ends with status 500
            /\ metadata' = metadata
            /\ requests' = [requests EXCEPT ![k].pc = "failed"]
    /\ last_session' = requests[k].session
    /\ UNCHANGED <<sessions, contexts, circuits_open, rate_limited>>
    /\ UNCHANGED <<chatVars, calcVars>>

\* get_response lines 47-81 and conversation lines 137-139: Gemini raises,
\* Groq is tried and raises, the request ends with status 503 and no reply
GeminiFails(k, outcome) ==
    /\ requests[k].pc = "gemini"
    /\ LET counts1 == [error_counts EXCEPT !["gemini"] = @ + 1]
           circuits1 == [circuits_open EXCEPT !["gemini"] =
                            @ \/ counts1["gemini"] >= circuit_breaker_threshold]
           g == GroqAttempt(counts1, circuits1)
       IN  /\ error_counts' = g.counts
           /\ circuits_open' = g.circuits
           /\ requests' = [requests EXCEPT ![k].pc = "failed",
                                           ![k].called = @ \cup g.called]
    /\ rate_limited' = [rate_limited EXCEPT !["gemini"] = @ \/ outcome = "rate"]
    /\ last_session' = requests[k].session
    /\ UNCHANGED <<histories, sessions, last_api_used, contexts, metadata>>
    /\ UNCHANGED <<chatVars, calcVars>>

\* a cooldown that also closes the circuit of the API
CooldownClosesCircuit(api) ==
    /\ rate_limited[api]
    /\ rate_limited' = [rate_limited EXCEPT ![api] = FALSE]
    /\ circuits_open' = [circuits_open EXCEPT ![api] = FALSE]
    /\ UNCHANGED <<histories, sessions, requests, error_counts, last_api_used>>
    /\ UNCHANGED <<contexts, metadata, last_session>>
    /\ UNCHANGED <<chatVars, calcVars>>

\* _is_rate_limited lines 136-140: the cooldown of a rate limit has elapsed
CooldownElapses(api) ==
    /\ rate_limited[api]
    /\ rate_limited' = [rate_limited EXCEPT ![api] = FALSE]
    /\ UNCHANGED <<histories, sessions, requests, error_counts, circuits_open, last_api_used>>
    /\ UNCHANGED <<contexts, metadata, last_session>>
    /\ UNCHANGED <<chatVars, calcVars>>

\* main.update_context lines 197-208 over ContextManager.update_context 49-56
UpdateContext(sid, updates) ==
    /\ sessions' = sessions \cup {sid}
    /\ contexts' = [initialize_context(contexts, sid) EXCEPT ![sid].phone = updates.phone]
    /\ histories' = initialize_history(histories, sid)
    /\ metadata' = initialize_metadata(metadata, sid)
    /\ last_session' = sid
    /\ UNCHANGED <<requests, error_counts, circuits_open, rate_limited, last_api_used>>
    /\ UNCHANGED <<chatVars, calcVars>>

\* ContextManager.clear_session lines 83-91
ClearSession(sid) ==
    /\ sessions' = sessions \ {sid}
    /\ contexts' = [contexts EXCEPT ![sid] = NoContext]
    /\ histories' = [histories EXCEPT ![sid] = <<>>]
    /\ metadata' = [metadata EXCEPT ![sid] = NoMetadata]
    /\ last_session' = sid
    /\ UNCHANGED <<requests, error_counts, circuits_open, rate_limited, last_api_used>>
    /\ UNCHANGED <<chatVars, calcVars>>

\* ContextManager.initialize_session lines 19-41
InitializeSession(sid) ==
    /\ sessions' = sessions \cup {sid}
    /\ contexts' = initialize_context(contexts, sid)
    /\ histories' = initialize_history(histories, sid)
    /\ metadata' = initialize_metadata(metadata, sid)
    /\ last_session' = sid
    /\ UNCHANGED <<requests, error_counts, circuits_open, rate_limited, last_api_used>>
    /\ UNCHANGED <<chatVars, calcVars>>

\* the arrival number of the next message of a session: the messages of a
\* session are numbered as they arrive
NextArrival(hist, sid) ==
    IF hist[sid] = <<>> THEN 1 ELSE hist[sid][Len(hist[sid])][2] + 1

\* ContextManager.add_message lines 58-71 called on its own; for a session
\* without metadata line 70 raises KeyError after the append
AddMessage(sid, role) ==
    /\ NextArrival(histories, sid) <= MaxArrivals
    /\ histories' = add_message(histories, sid, role, NextArrival(histories, sid))
    /\ metadata' = IF metadata[sid].present
                   THEN count_message(metadata, histories', sid)
                   ELSE metadata
    /\ last_session' = sid
    /\ UNCHANGED <<sessions, contexts>>
    /\ UNCHANGED <<requests, error_counts, circuits_open, rate_limited, last_api_used>>
    /\ UNCHANGED <<chatVars, calcVars>>

\* the messages of a session alternate between the user and the bot
RoleOf(arrival) == IF arrival % 2 = 1 THEN "user" ELSE "bot"

\* sequences of add_message calls on the sessions of a ContextManager
HistoryNext ==
    \/ \E sid \in SessionIds : InitializeSession(sid)
    \/ \E sid \in SessionIds : AddMessage(sid, RoleOf(NextArrival(histories, sid)))

\* the conversation endpoint together with direct calls of the ContextManager
ContextNext ==
    \/ \E k \in ContextRequestIds, sid \in SessionIds : ConversationStart(k, sid)
    \/ \E k \in ContextRequestIds : GeminiSucceeds(k)
    \/ \E k \in ContextRequestIds, outcome \in {"error", "rate"} : GeminiFails(k, outcome)
    \/ \E sid \in SessionIds, updates \in Updates : UpdateContext(sid, updates)
    \/ \E sid \in SessionIds : ClearSession(sid)

\* the requests of one session, enough of them for the circuits to open
FallbackNext ==
    \/ \E k \in FallbackRequestIds : ConversationStart(k, "s1")
    \/ \E k \in FallbackRequestIds : GeminiSucceeds(k)
    \/ \E k \in FallbackRequestIds, outcome \in {"error", "rate"} : GeminiFails(k, outcome)
    \/ \E api \in Apis : CooldownElapses(api)

ApiNext ==
    \/ \E k \in RequestIds, sid \in SessionIds : ConversationStart(k, sid)
    \/ \E k \in RequestIds : GeminiSucceeds(k)
    \/ \E k \in RequestIds, outcome \in {"error", "rate"} : GeminiFails(k, outcome)
    \/ \E api \in Apis : CooldownElapses(api)

-----------------------------------------------------------------------------
(***************************************************************************)
(* Part III: the EMI calculators.  Amounts are in paise, annual rates in   *)
(* hundredths of a percent (850 is 8.5%), so that                          *)
(* monthly_rate = rate / 120000; growth factors are fixed-point numbers    *)
(* over Scale.  The floats of the code are replaced by this fixed-point    *)
(* arithmetic, which rounds every product down.                            *)
(***************************************************************************)

Principals == {300000, 500000, 1000000}

AnnualRates == {0, 850, 1200}

TenureMonths == {1, 12, 18, 60}

\* the fixed-point unit of (1 + r) ** n
Scale == 10000000

\* <<(a * b) \div c, (a * b) % c>> without forming a * b, for a >= 0
RECURSIVE MulDiv(_, _, _)
MulDiv(a, b, c) ==
    IF a = 0 THEN <<0, 0>>
    ELSE CHOOSE res \in { <<2 * h[1] + (2 * h[2] + (a % 2) * b) \div c,
                            (2 * h[2] + (a % 2) * b) % c>> :
                          h \in {MulDiv(a \div 2, b, c)} } : TRUE

\* (1 + monthly_rate) ** n over Scale, by repeated squaring
RECURSIVE Growth(_, _)
Growth(rate, n) ==
    IF n = 0 THEN Scale
    ELSE CHOOSE res \in { IF n % 2 = 0 THEN sq ELSE sq + MulDiv(sq, rate, 120000)[1] :
                          sq \in { MulDiv(h, h, Scale)[1] :
                                   h \in {Growth(rate, n \div 2)} } } : TRUE

\* (1 + monthly_rate) ** n - 1 over Scale: the denominator of the formula
Denominator(rate, n) == Growth(rate, n) - Scale

\* principal * r * (1 + r) ** n / ((1 + r) ** n - 1), for a denominator
\* other than zero, written as i + i / ((1 + r) ** n - 1) with i = principal * r
AnnuityEmi(paise, rate, n) ==
    CHOOSE res \in { i + MulDiv(i, Scale, d)[1] :
                     i \in {MulDiv(paise, rate, 120000)[1]},
                     d \in {Denominator(rate, n)} } : TRUE

\* what a calculator gives: raised is a ZeroDivisionError; years holds, per
\* year of the breakdown, the principal paid and the balance after it
NoYears == << >>

Gave(emi) == [raised |-> FALSE, emi |-> emi, years |-> NoYears]

Raised == [raised |-> TRUE, emi |-> 0, years |-> NoYears]

\* utils.compute_emi
compute_emi(principal, annual_rate_percent, tenure_months) ==
    IF annual_rate_percent = 0
    THEN Gave((principal * 100) \div tenure_months)
    ELSE Gave(AnnuityEmi(principal * 100, annual_rate_percent, tenure_months))

\* master_agent.calculate_emi
calculate_emi(principal, rate, tenure_months) ==
    IF rate = 0
    THEN Gave((principal * 100) \div tenure_months)
    ELSE Gave(AnnuityEmi(principal * 100, rate, tenure_months))

\* month_interest = outstanding * monthly_rate, with no interest at all
NoInterest(outstanding, rate) == 0

\* month_interest = outstanding * monthly_rate
Interest(outstanding, rate) ==
    IF outstanding >= 0 THEN MulDiv(outstanding, rate, 120000)[1]
    ELSE 0 - MulDiv(0 - outstanding, rate, 120000)[1]

\* the inner loop of the breakdown over k months:
\* <<year_principal, outstanding>>
RECURSIVE PayMonths(_, _, _, _)
PayMonths(outstanding, emi, rate, k) ==
    IF k = 0 THEN <<0, outstanding>>
    ELSE CHOOSE res \in UNION {
             { <<month_principal + rest[1], rest[2]>> :
               rest \in {PayMonths(outstanding - month_principal, emi, rate, k - 1)} } :
             month_principal \in {emi - Interest(outstanding, rate)} } : TRUE

\* the months of each block of the breakdown: the full years, then the
\* remaining months if any
Periods(tenure_months) ==
    [y \in 1..(tenure_months \div 12) |-> 12]
        \o (IF tenure_months % 12 > 0 THEN <<tenure_months % 12>> ELSE << >>)

Max0(x) == IF x > 0 THEN x ELSE 0

\* the year-wise blocks: principal paid, the balance, the balance as displayed
RECURSIVE PayYears(_, _, _, _)
PayYears(outstanding, emi, rate, periods) ==
    IF periods = << >> THEN << >>
    ELSE CHOOSE res \in {
             <<[principal |-> y[1], outstanding |-> y[2], displayed |-> Max0(y[2])]>>
                 \o PayYears(y[2], emi, rate, Tail(periods)) :
             y \in {PayMonths(outstanding, emi, rate, Head(periods))} } : TRUE

\* xai_helper.generate_emi_breakdown: the EMI is numerator / denominator with
\* no test of the rate, so a zero denominator raises
generate_emi_breakdown(loan_amount, interest_rate, tenure_months) ==
    IF Denominator(interest_rate, tenure_months) = 0 THEN Raised
    ELSE CHOOSE res \in {
             [raised |-> FALSE, emi |-> emi,
              years |-> PayYears(loan_amount * 100, emi, interest_rate,
                                 Periods(tenure_months))] :
             emi \in {AnnuityEmi(loan_amount * 100, interest_rate, tenure_months)} } : TRUE

Call(op, principal, rate, tenure_months, gave) ==
    [op |-> op, principal |-> principal, rate |-> rate,
     tenure_months |-> tenure_months, gave |-> gave]

CalcInit == calc = Call("none", 0, 0, 0, Raised)

ComputeEmi ==
    /\ \E principal \in Principals, rate \in AnnualRates, n \in TenureMonths :
           calc' = Call("compute_emi", principal, rate, n, compute_emi(principal, rate, n))
    /\ UNCHANGED <<chatVars, apiVars>>

CalculateEmi ==
    /\ \E principal \in Principals, rate \in AnnualRates, n \in TenureMonths :
           calc' = Call("calculate_emi", principal, rate, n, calculate_emi(principal, rate, n))
    /\ UNCHANGED <<chatVars, apiVars>>

GenerateEmiBreakdown ==
    /\ \E principal \in Principals, rate \in AnnualRates, n \in TenureMonths :
           calc' = Call("generate_emi_breakdown", principal, rate, n,
                        generate_emi_breakdown(principal, rate, n))
    /\ UNCHANGED <<chatVars, apiVars>>

EmiNext == ComputeEmi \/ CalculateEmi \/ GenerateEmiBreakdown

-----------------------------------------------------------------------------
(* Specifications *)

Init == ChatInit /\ ApiInit /\ CalcInit

Next == Turn \/ UploadDocument \/ StartNewApplication

\* the chat session of app.py
Spec == Init /\ [][Next]_vars

\* the chat session with turns that raise inside run_unified_agent
NextFaults == Next \/ TurnFault

SpecFaults == Init /\ [][NextFaults]_vars

\* the chat session over a registry with a record that lacks fields
NextPartialRecord == Next \/ TurnPartialRecord

SpecPartialRecord == Init /\ [][NextPartialRecord]_vars

\* the conversation endpoint of main.py
SpecApi == Init /\ [][ApiNext]_vars

\* the ContextManager under the endpoint and direct calls
SpecContext == Init /\ [][ContextNext]_vars

\* the FallbackHandler under the requests of one session
SpecFallback == Init /\ [][FallbackNext]_vars

\* the ContextManager under sequences of add_message calls
SpecHistory == Init /\ [][HistoryNext]_vars

\* the EMI calculators
SpecEmi == Init /\ [][EmiNext]_vars

-----------------------------------------------------------------------------
(* Properties of the chat session *)

\* a step that is a chat turn: not a reset (which clears the result) and not
\* the document upload
TurnStep ==
    result'.branch \notin {"none", "reset"} /\ state'.document_uploaded = state.document_uploaded

\* the latest operation on the result was a chat turn
TurnDone == result.branch \notin {"none", "reset"}

\* the turn made a decision
Decided(r) == r.eligibility_path \in Paths /\ r.conversation_stage \in DecisionStages

InSeq(x, seq) == \E i \in 1..Len(seq) : seq[i] = x

\* C1: once the state holds a phone, no later turn changes it, and once it holds
\* a non-zero requested_amount, no later turn changes it, whatever the message holds.
C1_WriteOnce ==
    [][TurnStep =>
        /\ (state.phone # None => state'.phone = state.phone)
        /\ (state.requested_amount # 0 => state'.requested_amount = state.requested_amount)]_vars

\* C1 witness: the latest message named another phone and another amount than
\* the ones the state holds.
C1_Witness ==
    /\ state.phone # None /\ user_input.phone \notin {None, state.phone}
    /\ state.requested_amount # 0 /\ AmountOf(user_input) \notin {0, state.requested_amount}

\* C2: once a turn found the phone absent from the registry, every later turn
\* yields eligibility_path REGISTER with stage completed.
C2_RegisterIsTerminal ==
    (TurnDone /\ state.phone # None /\ ~Lookup(state.phone).present) =>
        /\ result.eligibility_path = "REGISTER"
        /\ result.conversation_stage = "completed"
        /\ state.eligibility_path = "REGISTER"
        /\ state.conversation_stage = "completed"

\* C3: after the stage has become approved or completed, no later turn runs the
\* eligibility rules or changes eligibility_path, and the stage changes only by
\* the tenure finalization approved -> completed.
C3_TerminalStageIsFinal ==
    [][(TurnStep /\ state.conversation_stage \in {"approved", "completed"}) =>
        /\ result'.branch \notin {"rules", "register"}
        /\ state'.eligibility_path = state.eligibility_path
        /\ \/ state'.conversation_stage = state.conversation_stage
           \/ /\ state.conversation_stage = "approved"
              /\ state'.conversation_stage = "completed"
              /\ result'.branch = "tenure"]_vars

\* C4: once a tenure was finalized, the stage never is approved again and no
\* later turn produces another selected_tenure or final_emi.
C4_TenureOneShot ==
    finalized.present =>
        /\ state.conversation_stage # "approved"
        /\ result.selected_tenure \in {0, finalized.selected_tenure}
        /\ result.final_emi \in {0, finalized.final_emi}

\* C5: the decision run again on the next turn, on the state the first run's
\* results were merged into, with the same phone, requested_amount and
\* document_uploaded, yields the same eligibility_path and conversation_stage.
C5_IdempotentDecision ==
    [][(/\ TurnStep
        /\ result.branch \in {"rules", "register"}
        /\ result'.branch \in {"rules", "register"}
        /\ state'.phone = state.phone
        /\ state'.requested_amount = state.requested_amount
        /\ result'.doc_uploaded = result.doc_uploaded) =>
        /\ result'.eligibility_path = result.eligibility_path
        /\ result'.conversation_stage = result.conversation_stage]_vars

\* C6: while the phone is unresolved, no turn's message (greeting or static
\* fallback) asks for the loan amount, and the prompt given to the text
\* generator does not list the amount as needed.
C6_PhoneBeforeAmount ==
    (TurnDone /\ state.phone = None) =>
        /\ ~AsksAmount(result.message)
        /\ ~(result.llm_called /\ InSeq("amount", result.missing_info))

\* C7: on a turn that is not ready for a decision the prompt names exactly one
\* field, the first missing one, and the message does not ask for an amount
\* the merged state already holds.
C7_OneFieldAtATime ==
    result.branch = "gather" =>
        /\ Len(result.missing_info) = 1
        /\ result.missing_info[1] = (IF state.phone = None THEN "phone" ELSE "amount")
        /\ (AsksAmount(result.message) => state.requested_amount = 0)

-----------------------------------------------------------------------------
(* Properties of the eligibility rules. The customer's facts are read here   *)
(* from the registry record of the session's phone, and from the state      *)
(* where the registry has no record or the record does not hold the fact.   *)

\* the limit and the credit score the decision is about
LimitOf(st) ==
    IF Lookup(st.phone).present /\ Lookup(st.phone).approved_amount # NoField
    THEN Lookup(st.phone).approved_amount ELSE st.pre_approved_limit

ScoreOf(st) ==
    IF Lookup(st.phone).present /\ Lookup(st.phone).credit_score # NoField
    THEN Lookup(st.phone).credit_score ELSE st.credit_score

\* the record is blacklisted or the fraud screen answers Blacklisted
FraudFlag(st) == Lookup(st.phone).blacklisted \/ Lookup(st.phone).fraud = "Blacklisted"

\* the conditional criteria: above the limit, and within twice the limit or a
\* score of at least 700
ConditionalCriteria(st) ==
    /\ st.requested_amount > LimitOf(st)
    /\ \/ (LimitOf(st) > 0 /\ st.requested_amount <= 2 * LimitOf(st))
       \/ ScoreOf(st) >= 700

\* the latest turn evaluated the limit, fraud and score rules
RulesTurn == result.branch = "rules"

\* C11: for a verified customer with requested_amount <= limit and no fraud
\* flag, the turn yields FAST_TRACK, stage approved and the message asking for
\* the tenure, and its result holds no final_emi and no selected_tenure.
C11_FastTrackRule ==
    (/\ RulesTurn /\ state.verified /\ Lookup(state.phone).present
     /\ state.requested_amount <= LimitOf(state) /\ ~FraudFlag(state)) =>
        /\ result.eligibility_path = "FAST_TRACK"
        /\ result.conversation_stage = "approved"
        /\ result.message = "FAST_TRACK_MSG"
        /\ result.final_emi = 0
        /\ result.selected_tenure = 0

\* C12: with requested_amount <= limit, a customer whose record is blacklisted
\* or whom the fraud screen reports Blacklisted gets MANUAL_REVIEW with stage
\* completed, never FAST_TRACK.
C12_FraudOnFastTrack ==
    (/\ RulesTurn /\ Lookup(state.phone).present
     /\ state.requested_amount <= LimitOf(state) /\ FraudFlag(state)) =>
        /\ result.eligibility_path = "MANUAL_REVIEW"
        /\ result.conversation_stage = "completed"
        /\ state.eligibility_path = "MANUAL_REVIEW"
        /\ state.conversation_stage = "completed"

\* C12 witness: scenario C, the blacklisted customer asking for 300000.
C12_Witness ==
    /\ RulesTurn /\ state.phone = "8887776665" /\ state.requested_amount = 300000
    /\ result.eligibility_path = "MANUAL_REVIEW"

\* C13: with requested_amount above the limit, not within twice a positive
\* limit, and a credit score below 700 (an absent score counts as 0), the turn
\* yields HARD_REJECT with stage completed, whatever document_uploaded is.
C13_HardRejectRule ==
    (/\ RulesTurn /\ state.requested_amount > LimitOf(state)
     /\ ~(LimitOf(state) > 0 /\ state.requested_amount <= 2 * LimitOf(state))
     /\ ~(ScoreOf(state) >= 700)) =>
        /\ result.eligibility_path = "HARD_REJECT"
        /\ result.conversation_stage = "completed"
        /\ state.eligibility_path = "HARD_REJECT"
        /\ state.conversation_stage = "completed"

\* C13 witness: scenario E with the document uploaded.
C13_Witness ==
    /\ RulesTurn /\ state.phone = "7776665554" /\ state.requested_amount = 1000000
    /\ result.doc_uploaded /\ result.eligibility_path = "HARD_REJECT"

\* C14: a turn that finds the conditional criteria with document_uploaded false
\* yields CONDITIONAL with stage document_needed, and the turn that follows a
\* document_needed stage evaluates the rules again.
C14_ConditionalWithoutDocument ==
    [][TurnStep =>
        /\ (/\ result'.branch = "rules" /\ ConditionalCriteria(state')
            /\ ~result'.doc_uploaded) =>
                /\ result'.eligibility_path = "CONDITIONAL"
                /\ result'.conversation_stage = "document_needed"
                /\ state'.conversation_stage = "document_needed"
        /\ state.conversation_stage = "document_needed" => result'.branch = "rules"]_vars

\* C14 witness: scenario B before the upload.
C14_Witness ==
    /\ RulesTurn /\ state.phone = "9998887776" /\ state.requested_amount = 500000
    /\ ~state.document_uploaded /\ state.conversation_stage = "document_needed"

\* C15: from stage document_needed with path CONDITIONAL and no fraud flag, a
\* turn processed with document_uploaded true yields stage completed with path
\* CONDITIONAL, and a turn processed with it false stays in document_needed.
C15_DocumentArrival ==
    [][(/\ TurnStep /\ state.conversation_stage = "document_needed"
        /\ state.eligibility_path = "CONDITIONAL" /\ ~FraudFlag(state)) =>
        /\ state'.eligibility_path = "CONDITIONAL"
        /\ result'.eligibility_path = "CONDITIONAL"
        /\ state'.conversation_stage =
              (IF state.document_uploaded THEN "completed" ELSE "document_needed")
        /\ result'.conversation_stage = state'.conversation_stage]_vars

\* C15 witness: scenario B after the upload, before the next turn; every turn
\* from this state is a first turn processed after the upload.
C15_Witness ==
    /\ state.phone = "9998887776" /\ state.requested_amount = 500000
    /\ state.conversation_stage = "document_needed" /\ state.eligibility_path = "CONDITIONAL"
    /\ state.document_uploaded /\ ~result.doc_uploaded

\* C16: when the conditional criteria hold and document_uploaded is true, a
\* blacklisted or fraud-flagged customer gets MANUAL_REVIEW with stage completed.
C16_FraudOnConditional ==
    (/\ RulesTurn /\ ConditionalCriteria(state) /\ result.doc_uploaded
     /\ FraudFlag(state)) =>
        /\ result.eligibility_path = "MANUAL_REVIEW"
        /\ result.conversation_stage = "completed"
        /\ result.message = "DOCUMENT_MANUAL_REVIEW_MSG"

\* C16 witness: customer F, whom the fraud screen reports, asking for more than
\* the limit with the document uploaded.
C16_Witness ==
    /\ RulesTurn /\ state.phone = "5554443332" /\ state.requested_amount = 500000
    /\ result.doc_uploaded /\ result.eligibility_path = "MANUAL_REVIEW"

\* C17 as stated: with a limit of 0 and requested_amount > 0 the decision is
\* never FAST_TRACK, CONDITIONAL exactly when credit_score >= 700 and
\* HARD_REJECT otherwise.
C17_ZeroLimitPolicy ==
    (RulesTurn /\ LimitOf(state) = 0 /\ state.requested_amount > 0) =>
        /\ result.eligibility_path # "FAST_TRACK"
        /\ result.eligibility_path = (IF ScoreOf(state) >= 700 THEN "CONDITIONAL" ELSE "HARD_REJECT")

\* C17 amended: with a limit of 0 and requested_amount > 0 the decision is never
\* FAST_TRACK; it is HARD_REJECT exactly when credit_score < 700; with
\* credit_score >= 700 it is CONDITIONAL, except MANUAL_REVIEW for a
\* fraud-flagged customer whose document is uploaded.
C17_ZeroLimitPolicyWithFraud ==
    (RulesTurn /\ LimitOf(state) = 0 /\ state.requested_amount > 0) =>
        /\ result.eligibility_path # "FAST_TRACK"
        /\ result.eligibility_path =
              (IF ScoreOf(state) < 700 THEN "HARD_REJECT"
               ELSE IF result.doc_uploaded /\ FraudFlag(state) THEN "MANUAL_REVIEW"
               ELSE "CONDITIONAL")

\* C17 witness: zero-limit customer Z, score 700 and blacklisted, after the upload.
C17_Witness ==
    /\ RulesTurn /\ state.phone = "6665554443" /\ state.requested_amount > 0
    /\ state.pre_approved_limit = 0 /\ result.doc_uploaded
    /\ result.eligibility_path = "MANUAL_REVIEW"

C19_FraudScreenUnknown ==
    (RulesTurn /\ ~FraudFlag(state)) =>
        /\ result.eligibility_path # "MANUAL_REVIEW"
        /\ state.requested_amount <= LimitOf(state) =>
              (result.eligibility_path = "FAST_TRACK" /\ result.conversation_stage = "approved")
        /\ (ConditionalCriteria(state) /\ result.doc_uploaded) =>
              /\ result.eligibility_path = "CONDITIONAL"
              /\ result.conversation_stage = "completed"
              /\ result.message = "CONDITIONAL_APPROVAL_MSG"

\* C19 witness: customer B, for whom the fraud screen answers Unknown, is
\* conditionally approved after the upload.
C19_Witness ==
    /\ RulesTurn /\ state.phone = "9998887776" /\ Lookup(state.phone).fraud = "Unknown"
    /\ result.doc_uploaded /\ result.message = "CONDITIONAL_APPROVAL_MSG"

\* C20: the text generator is called only on a turn that ends without a
\* decision: never on a REGISTER, rules or tenure-finalization turn.
C20_LlmOnlyWithoutDecision ==
    result.llm_called => (result.branch = "gather" /\ ~Decided(result))

-----------------------------------------------------------------------------
(* Properties of text generation, faults, finalization and extraction *)

\* the state a turn stores: app.py lines 470-494 after master_agent.py 277-302
StoredBy(st, r) == Merge([st EXCEPT !.approval_context = ApprovalContext(st, r)], r)

\* C21: from any state the session reaches, the same message run once with a
\* generated text and once with none (empty, too short or failed: line 55
\* returns "" for all three) gives the same eligibility_path, the same
\* conversation_stage and the same stored state, and the same message when the
\* turn decides. The stored states being equal, two runs of a turn sequence
\* stay in step turn after turn.
C21_GenerationNoninterference ==
    \A msg \in Messages, language \in Languages :
        \E r1 \in {run_unified_agent(msg, state, history_empty, language, "LLM_TEXT")} :
        \E r2 \in {run_unified_agent(msg, state, history_empty, language, "")} :
            /\ r1.eligibility_path = r2.eligibility_path
            /\ r1.conversation_stage = r2.conversation_stage
            /\ StoredBy(state, r1) = StoredBy(state, r2)
            /\ (Decided(r1) \/ Decided(r2)) => r1.message = r2.message

\* C21 witness: a deciding turn on which the generator was called, in a state
\* from which the two runs of some message show different texts.
C21_Witness ==
    /\ TurnDone /\ Decided(result) /\ result.llm_called
    /\ \E msg \in Messages :
        run_unified_agent(msg, state, history_empty, "english", "LLM_TEXT").message
            # run_unified_agent(msg, state, history_empty, "english", "").message

RECURSIVE Outstanding(_, _, _)
\* the balance left of a loan after num_months instalments of emi, with the
\* month's interest at 8.5 / 100 / 12 added before each instalment
Outstanding(balance, emi, num_months) ==
    IF num_months = 0 THEN balance
    ELSE Outstanding(balance + (balance * 17) \div 2400 - emi, emi, num_months - 1)

\* emi repays loan_amount at 8.5% in exactly num_months instalments, to within
\* one percent of the principal (the model's EMI is in fixed point)
Amortizes(loan_amount, emi, num_months) ==
    \E left \in {Outstanding(loan_amount, emi, num_months)} :
        left * 100 <= loan_amount /\ -left * 100 <= loan_amount

\* C24: a turn past the greeting in an approved session whose message names a
\* tenure returns stage completed, the path of the earlier decision
\* (FAST_TRACK), the tenure named, which is one of 24, 36, 48, 60, 72, and a
\* final_emi that repays the requested amount at 8.5% in that many months.
C24_TenureFinalization ==
    [][(TurnStep /\ state.conversation_stage = "approved" /\ user_input'.tenure # 0) =>
        /\ result'.branch = "tenure"
        /\ result'.conversation_stage = "completed"
        /\ result'.eligibility_path = state.eligibility_path
        /\ result'.eligibility_path = "FAST_TRACK"
        /\ result'.selected_tenure = user_input'.tenure
        /\ result'.selected_tenure \in Tenures
        /\ Amortizes(state.requested_amount, result'.final_emi, result'.selected_tenure)
        /\ state'.conversation_stage = "completed"]_vars

\* C24 witness: a 36-month finalization of customer A's loan.
C24_Witness ==
    /\ result.branch = "tenure" /\ result.selected_tenure = 36
    /\ state.phone = "9876543210" /\ state.conversation_stage = "completed"
    /\ result.final_emi > 0 /\ result.final_emi = finalized.final_emi

\* C25: on a turn past the greeting in a session whose stage is not approved,
\* the result holds no selected_tenure, whatever the message names.
C25_TenureOnlyWhenApproved ==
    [][(TurnStep /\ state.conversation_stage # "approved") =>
        result'.selected_tenure = 0]_vars

\* the registry's value of a fact for a phone: 0 when there is no record or
\* the record does not hold the fact
RegistryFact(field) == IF field = NoField THEN 0 ELSE field

\* C26: the pre_approved_limit and the credit_score of the state are those of
\* the registry record of the state's phone, 0 when the registry holds none.
C26_RegistryOnlyFacts ==
    /\ state.pre_approved_limit = RegistryFact(Lookup(state.phone).approved_amount)
    /\ state.credit_score = RegistryFact(Lookup(state.phone).credit_score)

\* the amount of the first pattern that is satisfied, an out-of-range rupees
\* number satisfying none
FirstSatisfiedAmount(msg) ==
    IF msg.lakh # NoNum THEN msg.lakh * 100000
    ELSE IF msg.crore # NoNum THEN msg.crore * 10000000
    ELSE IF msg.rupees # NoNum /\ InLoanRange(msg.rupees) THEN msg.rupees
    ELSE FirstLarge(msg.large)

\* C27: on a turn past the greeting in a session without an amount, the
\* requested_amount of the result is that of the first satisfied pattern in the
\* order lakh, crore, rupees number within range, standalone number within range.
C27_AmountPriority ==
    [][(TurnStep /\ result'.branch # "greeting" /\ state.requested_amount = 0) =>
        result'.requested_amount = FirstSatisfiedAmount(user_input')]_vars

\* the latest turn reached a terminal approval: the fast-track approval, its
\* finalization, or the conditional approval
TerminalApproval ==
    /\ TurnDone
    /\ \/ result.eligibility_path = "FAST_TRACK"
          /\ result.conversation_stage \in {"approved", "completed"}
       \/ result.eligibility_path = "CONDITIONAL" /\ result.conversation_stage = "completed"

\* C28: at a terminal approval the state holds an approval struct whose
\* customer_name, phone, requested_amount, pre_approved_limit, income and
\* credit_score are the state's, and whose emi repays the amount over its tenure.
C28_ApprovalStruct ==
    TerminalApproval =>
        /\ state.approval_context.present
        /\ state.approval_context.customer_name = state.customer_name
        /\ state.approval_context.phone = state.phone
        /\ state.approval_context.requested_amount = state.requested_amount
        /\ state.approval_context.pre_approved_limit = state.pre_approved_limit
        /\ state.approval_context.income = state.income
        /\ state.approval_context.credit_score = state.credit_score
        /\ Amortizes(state.approval_context.requested_amount, state.approval_context.emi,
                     state.approval_context.tenure)

\* a step that is the document upload
UploadStep ==
    ~state.document_uploaded /\ state' = [state EXCEPT !.document_uploaded = TRUE]

\* a step that is "Start New Application"
ResetStep == result'.branch = "reset" /\ ~UploadStep

FaultStep == TurnStep /\ result'.branch = "fault"

\* the session's confirmed facts are the same before and after the step
FactsUntouched ==
    /\ state'.phone = state.phone
    /\ state'.requested_amount = state.requested_amount
    /\ state'.verified = state.verified
    /\ state'.pre_approved_limit = state.pre_approved_limit
    /\ state'.credit_score = state.credit_score
    /\ state'.eligibility_path = state.eligibility_path

-----------------------------------------------------------------------------
(* Properties of the conversation endpoint *)

\* C30: a call for one session (a conversation turn's start or completion,
\* update_context, clear_session, with the initialize_session and add_message
\* they run) leaves the context, the history and the metadata of every other
\* session as they were.
C30_SessionIsolation ==
    [][\A sid \in SessionIds : sid # last_session' =>
            /\ contexts'[sid] = contexts[sid]
            /\ histories'[sid] = histories[sid]
            /\ metadata'[sid] = metadata[sid]]_vars

\* C30 witness: both sessions hold messages and an updated context, a request
\* of each is in flight, and the latest call was for s2.
C30_Witness ==
    /\ \A sid \in SessionIds :
        /\ contexts[sid].phone # None /\ metadata[sid].message_count > 0
        /\ \E k \in InFlight : requests[k].session = sid
    /\ last_session = "s2"

\* C8: turns of one session never interleave: no two requests of a session are
\* being processed at once, and in a session's history every user message whose
\* request produced a reply is immediately followed by that reply.
C8_TurnsDoNotInterleave ==
    /\ \A j, k \in InFlight : j # k => requests[j].session # requests[k].session
    /\ \A sid \in SessionIds : \A i \in 1..Len(histories[sid]) :
        LET m == histories[sid][i] IN
        (m[1] = "user" /\ requests[m[2]].pc = "done") =>
            /\ i < Len(histories[sid])
            /\ histories[sid][i + 1] = <<"bot", m[2]>>

-----------------------------------------------------------------------------
(* Properties of the extractor's candidates *)

\* C31: on a turn past the greeting the result holds no candidate for phone,
\* requested_amount, income or selected_tenure when the state the turn was
\* given already holds that field.
C31_NoCandidateForHeldField ==
    [][(TurnStep /\ result'.branch # "greeting") =>
        /\ state.phone # None => result'.phone = None
        /\ state.requested_amount # 0 => result'.requested_amount = 0
        /\ state.income # 0 => result'.income = 0
        /\ state.selected_tenure # 0 => result'.selected_tenure = 0]_vars

-----------------------------------------------------------------------------
(* Properties of the EMI calculators *)

\* C32: at an annual rate of 0 every EMI calculator gives
\* principal / tenure_months and none raises a division by zero.
C32_ZeroRateEmi ==
    (calc.op # "none" /\ calc.rate = 0) =>
        /\ ~calc.gave.raised
        /\ calc.gave.emi = (calc.principal * 100) \div calc.tenure_months

\* what the fixed-point arithmetic may lose over a schedule, in paise
RoundingTolerance == 500

Within(x, y, tolerance) == x - y <= tolerance /\ y - x <= tolerance

RECURSIVE SumPrincipal(_)
SumPrincipal(years) ==
    IF years = << >> THEN 0 ELSE Head(years).principal + SumPrincipal(Tail(years))

RoundTripCase == calc.principal = 500000 /\ calc.rate = 850 /\ calc.tenure_months = 60

\* C33: for 500000 at 8.5% over 60 months the EMI is 10258.3 within one
\* rupee; the year-wise principal parts of the breakdown sum to the principal
\* within the rounding tolerance, the balance after the last month is zero
\* within the tolerance, and no displayed balance is negative.
C33_EmiRoundTrip ==
    (calc.op # "none" /\ RoundTripCase) =>
        /\ ~calc.gave.raised
        /\ Within(calc.gave.emi, 1025830, 100)
        /\ calc.op = "generate_emi_breakdown" =>
            /\ Len(calc.gave.years) = 5
            /\ Within(SumPrincipal(calc.gave.years), 500000 * 100, RoundingTolerance)
            /\ Within(calc.gave.years[5].outstanding, 0, RoundingTolerance)
            /\ \A y \in 1..5 : calc.gave.years[y].displayed >= 0

C33_Witness ==
    /\ calc.op = "generate_emi_breakdown"
    /\ RoundTripCase
    /\ Len(calc.gave.years) = 5
    /\ calc.gave.years[5].displayed = 0

-----------------------------------------------------------------------------
(* Properties of the FallbackHandler *)

\* request k's get_response calls the API in this step
Calls(api, k) == api \notin requests[k].called /\ api \in requests'[k].called

\* request k's get_response starts in this step
Starts(k) == requests[k].pc = "new" /\ requests'[k].pc # "new"

\* the Gemini call of request k returns in this step
GeminiReturns(k) == requests[k].pc = "gemini" /\ requests'[k].pc = "done"

\* the Gemini call of request k raises in this step
GeminiRaises(k) == requests[k].pc = "gemini" /\ requests'[k].pc = "failed"

\* request k's get_response raises in this step
Raises(k) == requests[k].pc # "failed" /\ requests'[k].pc = "failed"

BotReplies(k) == {i \in 1..Len(histories[requests[k].session]) :
                     histories[requests[k].session][i] = <<"bot", k>>}

FailedCall(api, k) == IF api = "gemini" THEN GeminiRaises(k) ELSE Calls("groq", k)

\* a call of the API by request k succeeds in this step
SucceededCall(api, k) ==
    IF api = "gemini" THEN GeminiReturns(k)
    ELSE Calls("groq", k) /\ requests'[k].pc = "done"

\* C35: a circuit opens only in a step in which a call to its API fails and
\* brings the API's error count to 5 or more; the error count changes only by
\* one on a failed call and to 0 on a successful call, so it counts the failed
\* calls since the last success; and an API is not called while its circuit
\* is open.
C35_CircuitBreakerThreshold ==
    [][\A api \in Apis :
        /\ (circuits_open'[api] /\ ~circuits_open[api]) =>
               /\ error_counts'[api] >= 5
               /\ \E k \in FallbackRequestIds : FailedCall(api, k)
        /\ \A k \in FallbackRequestIds :
               /\ FailedCall(api, k) => error_counts'[api] = error_counts[api] + 1
               /\ SucceededCall(api, k) => error_counts'[api] = 0
        /\ error_counts'[api] # error_counts[api] =>
               \E k \in FallbackRequestIds : FailedCall(api, k) \/ SucceededCall(api, k)
        /\ circuits_open[api] => \A k \in FallbackRequestIds : ~Calls(api, k)]_vars

C35_Witness ==
    /\ circuits_open["gemini"]
    /\ error_counts["gemini"] = 5
    /\ \E k \in FallbackRequestIds : requests[k].pc = "done"

\* C36: no step closes an open circuit, no call is made to an API whose
\* circuit is open, a get_response that starts with both circuits open raises
\* without calling an API, and a rate limit falls only when its cooldown
\* elapses, which it can do in every state that holds one.
C36_OpenCircuitsPermanent ==
    /\ [][\A api \in Apis :
            /\ circuits_open[api] => circuits_open'[api]
            /\ circuits_open[api] => \A k \in FallbackRequestIds : ~Calls(api, k)
            /\ (\A a \in Apis : circuits_open[a]) =>
                   \A k \in FallbackRequestIds :
                       Starts(k) => requests'[k].pc = "failed" /\ requests'[k].called = {}
            /\ (rate_limited[api] /\ ~rate_limited'[api]) =>
                   /\ requests' = requests
                   /\ error_counts' = error_counts]_vars
    /\ [](\A api \in Apis : rate_limited[api] => ENABLED CooldownElapses(api))

C36_Witness ==
    /\ \A api \in Apis : circuits_open[api]
    /\ \E k \in FallbackRequestIds : requests[k].pc = "failed" /\ requests[k].called = {}
    /\ ~rate_limited["gemini"]

-----------------------------------------------------------------------------
(* Properties of the ContextManager's history *)

\* the history of the session grows or is trimmed in this step
Added(sid) == sid \in sessions /\ histories'[sid] # histories[sid]

\* seq with its first entry dropped once it holds more than n entries
MostRecent(seq, n) == IF Len(seq) > n THEN SubSeq(seq, Len(seq) - n + 1, Len(seq)) ELSE seq

\* C37: after an add_message on an initialized session the history holds at
\* most max_messages entries, which are the earlier history followed by the
\* new message with the oldest entries dropped beyond max_messages, and the
\* metadata's message_count is the length of the history.
C37_HistoryBound ==
    [][\A sid \in SessionIds : Added(sid) =>
        /\ Len(histories'[sid]) <= max_messages
        /\ \E role \in {"user", "bot"} :
               histories'[sid] =
                   MostRecent(Append(histories[sid],
                                     <<role, NextArrival(histories, sid)>>), max_messages)
        /\ metadata'[sid].message_count = Len(histories'[sid])]_vars

C37_Witness ==
    \E sid \in sessions :
        /\ Len(histories[sid]) = max_messages
        /\ histories[sid][1][2] = 3
        /\ histories[sid][max_messages][2] = max_messages + 2
        /\ metadata[sid].message_count = max_messages

-----------------------------------------------------------------------------
(* Properties of the stored stage and path *)

\* C38: in every state of the session, stage approved implies path
\* FAST_TRACK, stage document_needed implies path CONDITIONAL, and a path of
\* HARD_REJECT, MANUAL_REVIEW or REGISTER implies stage completed; and the
\* rules decide document_needed only while no document is uploaded.
C38_StagePathConsistency ==
    /\ [](/\ state.conversation_stage = "approved" =>
                 state.eligibility_path = "FAST_TRACK"
          /\ state.conversation_stage = "document_needed" =>
                 state.eligibility_path = "CONDITIONAL"
          /\ state.eligibility_path \in {"HARD_REJECT", "MANUAL_REVIEW", "REGISTER"} =>
                 state.conversation_stage = "completed")
    /\ [][(TurnStep /\ result'.branch = "rules"
                    /\ state'.conversation_stage = "document_needed")
              => ~state.document_uploaded]_vars

\* the registry record of the phone the session holds is blacklisted
BlacklistedSession == Lookup(state.phone).present /\ Lookup(state.phone).blacklisted

\* C39: while the session holds a phone whose registry record is blacklisted,
\* it is not in stage approved, has finalized no tenure, and is not completed
\* on the path CONDITIONAL or FAST_TRACK; a path it holds is MANUAL_REVIEW,
\* HARD_REJECT, or CONDITIONAL while waiting in document_needed.
C39_NoApprovalForBlacklisted ==
    BlacklistedSession =>
        /\ state.conversation_stage # "approved"
        /\ ~finalized.present
        /\ result.branch # "tenure"
        /\ ~(state.conversation_stage = "completed"
                /\ state.eligibility_path \in {"CONDITIONAL", "FAST_TRACK"})
        /\ state.eligibility_path \in Paths =>
               \/ state.eligibility_path \in {"MANUAL_REVIEW", "HARD_REJECT"}
               \/ /\ state.eligibility_path = "CONDITIONAL"
                  /\ state.conversation_stage = "document_needed"

\* C39 witness: blacklisted customer C, asking for more than the limit, waited
\* in document_needed, uploaded a document and was sent to manual review.
C39_Witness ==
    /\ BlacklistedSession
    /\ state.phone = "8887776665"
    /\ state.requested_amount > Lookup(state.phone).approved_amount
    /\ state.document_uploaded
    /\ TurnDone
    /\ state.eligibility_path = "MANUAL_REVIEW"
    /\ state.conversation_stage = "completed"

-----------------------------------------------------------------------------
(* Properties of the first turn *)

\* C40: a turn given an empty conversation history returns the greeting with
\* stage loan_understanding and nothing else: no phone, no amount, no income,
\* no tenure, no registry fact, no path and no generated text, whatever the
\* message holds; the state it leaves differs from the one it was given in the
\* stage alone.
C40_FirstTurnGreeting ==
    [][(TurnStep /\ history_empty) =>
        /\ \E language \in Languages :
               result' = [NoResult EXCEPT !.branch = "greeting",
                                          !.message = _get_adaptive_greeting(language),
                                          !.conversation_stage = "loan_understanding"]
        /\ result'.phone = None /\ result'.requested_amount = 0
        /\ result'.eligibility_path = None /\ ~result'.llm_called
        /\ state' = [state EXCEPT !.conversation_stage = "loan_understanding"]]_vars

C40_Witness ==
    /\ result.branch = "greeting"
    /\ user_input.phone = "9876543210" /\ user_input.lakh # NoNum
    /\ state.phone = None /\ state.requested_amount = 0
    /\ state.conversation_stage = "loan_understanding"
    /\ ~history_empty

====
